---- MODULE Spec2Model ----
(***************************************************************************)
(* tarxan-mcp: the tool-call handlers (deploy, delete, list_templates) of  *)
(* the deployment variants of the repository:                              *)
(*   "hardcoded"  src/src/index.ts                  NATS + constant list   *)
(*   "mongo"      src/.github/workflows/publish.yaml:33-267  NATS + Mongo  *)
(*   "rest"       src/.github/workflows/publish.yaml:269-487 REST, by name *)
(*   "restid"     src/unnamed/part_000              REST, by template id   *)
(* JavaScript values are records [t, s, n]: t the type tag, s the content  *)
(* of a string (a sequence of one-character strings), n the number, the    *)
(* truth value (0/1) or the identity of an object.                         *)
(***************************************************************************)
EXTENDS Integers, Sequences, FiniteSets, TLC

VARIABLES variant, phase, nats, catalog, req, out, published,
          mongoose, calls, sink, cmp

vars == <<variant, phase, nats, catalog, req, out, published, mongoose, calls, sink, cmp>>

\* Bound: downstream dispatches counted before the model stops taking calls.
MaxPublished == 2

----------------------------------------------------------------------------
\* JavaScript values

Undefined == [t |-> "undefined", s |-> <<>>, n |-> 0]
Null == [t |-> "null", s |-> <<>>, n |-> 0]
Str(s) == [t |-> "string", s |-> s, n |-> 0]
Num(n) == [t |-> "number", s |-> <<>>, n |-> n]
Bool(b) == [t |-> "boolean", s |-> <<>>, n |-> IF b THEN 1 ELSE 0]
Obj(k) == [t |-> "object", s |-> <<>>, n |-> k]

\* !v
Falsy(v) ==
    \/ v.t \in {"undefined", "null"}
    \/ v.t = "string" /\ v.s = <<>>
    \/ v.t = "number" /\ v.n = 0
    \/ v.t = "boolean" /\ v.n = 0

UpperCase == <<"A", "B", "C", "D", "E", "F", "G", "H", "I", "J", "K", "L", "M",
               "N", "O", "P", "Q", "R", "S", "T", "U", "V", "W", "X", "Y", "Z">>
LowerCase == <<"a", "b", "c", "d", "e", "f", "g", "h", "i", "j", "k", "l", "m",
               "n", "o", "p", "q", "r", "s", "t", "u", "v", "w", "x", "y", "z">>

toLowerCaseChar(c) ==
    IF \E i \in 1..Len(UpperCase) : UpperCase[i] = c
    THEN LowerCase[CHOOSE i \in 1..Len(UpperCase) : UpperCase[i] = c]
    ELSE c

\* String.prototype.toLowerCase
toLowerCase(s) == [i \in 1..Len(s) |-> toLowerCaseChar(s[i])]

\* String.prototype.includes
includes(s, sub) ==
    \E i \in 0..(Len(s) - Len(sub)) : SubSeq(s, i + 1, i + Len(sub)) = sub

----------------------------------------------------------------------------
\* The template catalog

Template(id, name, description) ==
    [id |-> id, name |-> name, description |-> description,
     type |-> <<>>, sub_type |-> <<>>, fields |-> <<>>]

tplMongo == <<"t", "p", "l", "-", "m", "o", "n", "g", "o">>
tplGpt == <<"t", "p", "l", "-", "g", "p", "t">>
tplScraper == <<"t", "p", "l", "-", "s", "c", "r", "a", "p", "e", "r">>

\* const templates = [...]
templates ==
    << Template(tplMongo,
                <<"M", "o", "n", "g", "o", "D", "B", " ", "S", "e", "r", "v", "e", "r">>,
                <<"B", "a", "s", "i", "c", " ", "M", "o", "n", "g", "o", "D", "B", " ",
                  "s", "t", "a", "c", "k">>),
       Template(tplGpt,
                <<"B", "a", "s", "i", "c", " ", "G", "P", "T", " ", "S", "e", "r", "v", "e", "r">>,
                <<"A", " ", "b", "a", "s", "i", "c", " ", "i", "n", "f", "e", "r", "e", "n", "c", "e",
                  " ", "s", "t", "a", "c", "k">>),
       Template(tplScraper,
                <<"S", "c", "r", "a", "p", "e", "r", " ", "+", " ", "S", "t", "o", "r", "a", "g", "e">>,
                <<"W", "e", "b", " ", "s", "c", "r", "a", "p", "e", "r", " ", "w", "i", "t", "h", " ",
                  "d", "a", "t", "a", " ", "s", "i", "n", "k">>) >>

----------------------------------------------------------------------------
\* Tool requests: request.params = { name, arguments, resource: { attributes } }

Fields == {"user_id", "template_id", "name", "creds", "server_id",
           "template_name", "template_creds"}

\* {}
EmptyObject == [f \in Fields |-> Undefined]

\* An argument bag that is there (an object) or not (undefined)
Absent == [present |-> FALSE, d |-> EmptyObject]
Present(d) == [present |-> TRUE, d |-> d]

ToolRequest(name, args, attrs) == [name |-> name, args |-> args, attrs |-> attrs]

\* const data = args ?? resource?.attributes
DataOf(r) == IF r.args.present THEN r.args ELSE r.attrs

----------------------------------------------------------------------------
\* Results of a tool call: what the handler returns or throws, the messages
\* it handed to the downstream sink, and the catalog reads it made.

Text(fmt, a, b) == [fmt |-> fmt, a |-> a, b |-> b, errors |-> <<>>, entries |-> <<>>]
NoText == Text("", Undefined, Undefined)

Return(text, sent, reads) ==
    [kind |-> "result", class |-> "", text |-> text, sent |-> sent, reads |-> reads]

Throw(class, text, sent, reads) ==
    [kind |-> "error", class |-> class, text |-> text, sent |-> sent, reads |-> reads]

NoOutcome == [kind |-> "none", class |-> "", text |-> NoText, sent |-> <<>>, reads |-> 0]

NoRequest == ToolRequest("", Absent, Absent)

\* No name resolved by the variants yet
NoComparison == [name |-> <<>>, hardcoded |-> NoOutcome, mongo |-> NoOutcome, rest |-> NoOutcome]

----------------------------------------------------------------------------
\* zod

\* The message of z.string() for a value that is no string
StringIssueMessage(v) ==
    CASE v.t = "undefined" -> "Required"
      [] v.t = "null" -> "Expected string, received null"
      [] v.t = "number" -> "Expected string, received number"
      [] v.t = "boolean" -> "Expected string, received boolean"
      [] OTHER -> "Expected string, received object"

\* z.string() at a key of a z.object: the issues it raises
zString(path, v) ==
    IF v.t = "string" THEN <<>>
    ELSE << [path |-> path, message |-> StringIssueMessage(v)] >>

\* Mutant of DeploySchemaSafeParse: a strict object, which refuses the unknown key name
DeploySchemaStrictObject(d) ==
    LET errors == zString("user_id", d.user_id) \o zString("template_id", d.template_id)
                    \o (IF d.name.t # "undefined"
                        THEN << [path |-> "", message |-> "Unrecognized key(s) in object: 'name'"] >>
                        ELSE <<>>)
    IN [success |-> errors = <<>>,
        data |-> [user_id |-> d.user_id, template_id |-> d.template_id, creds |-> d.creds],
        errors |-> errors]

\* DeploySchema.safeParse(data): every issue is collected, z.any() accepts
\* every value, undefined too, and unknown keys are stripped.
DeploySchemaSafeParse(d) ==
    LET errors == zString("user_id", d.user_id) \o zString("template_id", d.template_id)
    IN [success |-> errors = <<>>,
        data |-> [user_id |-> d.user_id, template_id |-> d.template_id, creds |-> d.creds],
        errors |-> errors]

\* DeleteSchema.parse(data)
DeleteSchemaSafeParse(d) ==
    LET errors == zString("server_id", d.server_id)
    IN [success |-> errors = <<>>, data |-> [server_id |-> d.server_id], errors |-> errors]

\* `Invalid arguments: ${errors.map((e) => `${e.path.join(".")}: ${e.message}`).join(", ")}`
InvalidArguments(errors) ==
    [fmt |-> "Invalid arguments: ${errors}", a |-> Undefined, b |-> Undefined,
     errors |-> errors, entries |-> <<>>]

\* JSON.stringify(payload): the keys in order, those holding undefined left out
JSONstringify(keys, o) ==
    LET pairs == [i \in 1..Len(keys) |-> <<keys[i], o[keys[i]]>>]
        Defined(p) == p[2].t # "undefined"
    IN SelectSeq(pairs, Defined)

DeployKeys == <<"user_id", "template_id", "creds">>
DeleteKeys == <<"server_id">>

\* nats.publish(subject, sc.encode(JSON.stringify(payload)))
Message(subject, keys, payload) == [subject |-> subject, body |-> JSONstringify(keys, payload)]

NoPayload == [user_id |-> Undefined, template_id |-> Undefined, creds |-> Undefined]

----------------------------------------------------------------------------
\* src/src/index.ts: the NATS variant with the hardcoded template list

RECURSIVE findFrom(_, _, _)
\* templates.find((t) => t.name.toLowerCase().includes(name.toLowerCase())),
\* from index i on: the index of the element found, 0 for undefined
findFrom(ts, i, name) ==
    IF i > Len(ts) THEN 0
    ELSE IF includes(toLowerCase(ts[i].name), toLowerCase(name)) THEN i
    ELSE findFrom(ts, i + 1, name)

RECURSIVE findLastFrom(_, _, _)
findLastFrom(ts, i, name) ==
    IF i < 1 THEN 0
    ELSE IF includes(toLowerCase(ts[i].name), toLowerCase(name)) THEN i
    ELSE findLastFrom(ts, i - 1, name)

\* Mutant of find: the last matching element instead of the first
findLast(ts, name) == findLastFrom(ts, Len(ts), name)

\* Mutant of find: a name that matches nothing falls back to the first element
findOrFirst(ts, name) ==
    IF findFrom(ts, 1, name) = 0 /\ Len(ts) > 0 THEN 1 ELSE findFrom(ts, 1, name)

find(ts, name) == findFrom(ts, 1, name)

Resolved(path, payload, reads) ==
    [status |-> "resolved", path |-> path, payload |-> payload, reads |-> reads,
     class |-> "", text |-> NoText]

Failed(path, class, text, reads) ==
    [status |-> "thrown", path |-> path, payload |-> NoPayload, reads |-> reads,
     class |-> class, text |-> text]

\* Mutant of FallbackRefused: the name is not tested
FallbackRefusedNoName(d) == Falsy(d.user_id) \/ Falsy(d.creds)

\* The fallback test of the deploy branch: !name || !user_id || !creds
FallbackRefused(d) == Falsy(d.name) \/ Falsy(d.user_id) \/ Falsy(d.creds)

\* The deploy branch up to the payload (lines 117-144)
ResolveDeploy(d) ==
    LET parsed == DeploySchemaSafeParse(d)
    IN IF parsed.success THEN Resolved("strict", parsed.data, 0)
       ELSE IF FallbackRefused(d)
            THEN Failed("none", "Error", InvalidArguments(parsed.errors), 0)
       ELSE IF d.name.t # "string"
            THEN Failed("fallback", "TypeError",
                        Text("name.toLowerCase is not a function", Undefined, Undefined), 1)
       ELSE LET i == find(templates, d.name.s)
            IN IF i = 0
               THEN Failed("fallback", "Error",
                           Text("No template found matching name: ${name}", d.name, Undefined), 1)
               ELSE Resolved("fallback",
                             [user_id |-> d.user_id, template_id |-> Str(templates[i].id),
                              creds |-> d.creds], 1)

\* Mutant of DeployDispatch: the publish is made before the resolution is looked at
DeployDispatchAlways(r) == << Message("deploy", DeployKeys, r.payload) >>

\* What the deploy branch publishes for a resolution: one message once resolved
DeployDispatch(r) ==
    IF r.status = "resolved" THEN << Message("deploy", DeployKeys, r.payload) >> ELSE <<>>

\* if (name === "deploy") { ... }
DeployTool(data) ==
    IF ~data.present
    THEN Throw("Error", Text("Missing deployment input (arguments or resource)",
                             Undefined, Undefined), <<>>, 0)
    ELSE LET r == ResolveDeploy(data.d)
         IN IF r.status = "thrown" THEN Throw(r.class, r.text, DeployDispatch(r), r.reads)
            ELSE Return(Text("Deploy event published for user ${user_id} using template ${template_id}",
                             r.payload.user_id, r.payload.template_id),
                        DeployDispatch(r), r.reads)

\* Mutant of DeleteTool: the publish is made with the unparsed data
DeleteToolUnparsed(data) ==
    IF ~data.present
    THEN Throw("Error", Text("Missing deletion input (arguments or resource)",
                             Undefined, Undefined), <<>>, 0)
    ELSE Return(Text("Delete event published for server ${server_id}",
                     data.d.server_id, Undefined),
                << Message("delete", DeleteKeys, data.d) >>, 0)

\* if (name === "delete") { ... }, with the catch's ZodError conversion
DeleteTool(data) ==
    IF ~data.present
    THEN Throw("Error", Text("Missing deletion input (arguments or resource)",
                             Undefined, Undefined), <<>>, 0)
    ELSE LET parsed == DeleteSchemaSafeParse(data.d)
         IN IF ~parsed.success THEN Throw("Error", InvalidArguments(parsed.errors), <<>>, 0)
            ELSE Return(Text("Delete event published for server ${server_id}",
                             parsed.data.server_id, Undefined),
                        << Message("delete", DeleteKeys, parsed.data) >>, 0)

\* One formatted catalog entry: the template literal used and what it interpolates
Entry(fmt, name, id, detail, type, subType, fields) ==
    [fmt |-> fmt, name |-> name, id |-> id, detail |-> detail, type |-> type,
     subType |-> subType, fields |-> fields]

\* `* ${t.name} (${t.id})${t.description ? ` - ${t.description}` : ""}`
\* (the bullet and the dash are written in ASCII here)
FormatTemplate(t) ==
    IF t.description # <<>>
    THEN Entry("* ${t.name} (${t.id}) - ${t.description}", t.name, t.id, t.description,
               <<>>, <<>>, <<>>)
    ELSE Entry("* ${t.name} (${t.id})", t.name, t.id, <<>>, <<>>, <<>>, <<>>)

\* if (name === "list_templates") { ... }: the entries joined by "\n"
ListTemplatesTool ==
    Return([fmt |-> "${entries.join('\n')}", a |-> Undefined, b |-> Undefined,
            errors |-> <<>>, entries |-> [i \in 1..Len(templates) |-> FormatTemplate(templates[i])]],
           <<>>, 1)

\* server.setRequestHandler(CallToolRequestSchema, async (request) => { ... })
HandleCallTool(natsUp, r) ==
    IF ~natsUp
    THEN Throw("Error", Text("NATS connection not established", Undefined, Undefined), <<>>, 0)
    ELSE CASE r.name = "deploy" -> DeployTool(DataOf(r))
           [] r.name = "delete" -> DeleteTool(DataOf(r))
           [] r.name = "list_templates" -> ListTemplatesTool
           [] OTHER -> Throw("Error", Text("Unknown tool: ${name}", Undefined, Undefined), <<>>, 0)

----------------------------------------------------------------------------
\* The inputs the tool calls are drawn from

u1 == <<"u", "1">>
tplX == <<"t", "p", "l", "-", "x">>
srv1 == <<"s", "r", "v", "-", "1">>
gpt == <<"g", "p", "t">>
SERVER == <<"S", "E", "R", "V", "E", "R">>
nonexistent == <<"n", "o", "n", "e", "x", "i", "s", "t", "e", "n", "t">>
gDotT == <<"g", ".", "t">>
paren == <<"(">>

UserIds == {Undefined, Str(u1), Str(<<>>), Num(5)}
TemplateIds == {Undefined, Str(tplX), Str(tplGpt), Num(7)}
Names == {Undefined, Str(<<>>), Str(gpt), Str(SERVER), Str(nonexistent), Str(gDotT),
          Str(paren), Num(5)}
Creds == {Undefined, Obj(1), Num(0), Str(<<>>)}
ServerIds == {Undefined, Str(srv1), Str(<<>>), Num(5)}

DeployInput(u, t, n, c) ==
    [EmptyObject EXCEPT !.user_id = u, !.template_id = t, !.name = n, !.creds = c]

DeployData == {DeployInput(u, t, n, c) : u \in UserIds, t \in TemplateIds, n \in Names, c \in Creds}

DeleteData == {[EmptyObject EXCEPT !.server_id = v] : v \in ServerIds}

\* Attribute bags tried under resource.attributes
AttributeData ==
    {EmptyObject,
     DeployInput(Str(u1), Undefined, Str(gpt), Obj(1)),
     DeployInput(Str(u1), Str(tplX), Undefined, Obj(1)),
     [EmptyObject EXCEPT !.server_id = Str(srv1)]}

Bags(data) ==
    {[args |-> Present(d), attrs |-> Absent] : d \in data}
        \cup {[args |-> Absent, attrs |-> Present(d)] : d \in AttributeData}
        \cup {[args |-> Present(d), attrs |-> Present(e)] : d \in AttributeData, e \in AttributeData}
        \cup {[args |-> Absent, attrs |-> Absent]}

Requests ==
    {ToolRequest("deploy", b.args, b.attrs) : b \in Bags(DeployData)}
        \cup {ToolRequest("delete", b.args, b.attrs) : b \in Bags(DeleteData)}
        \cup {ToolRequest("list_templates", b.args, b.attrs) : b \in Bags({EmptyObject})}
        \cup {ToolRequest("restart", b.args, b.attrs) : b \in Bags({EmptyObject})}

----------------------------------------------------------------------------
\* src/src/index.ts: startup and the handler as actions

Init ==
    /\ variant = "hardcoded"
    /\ phase = "starting"
    /\ nats = FALSE
    /\ catalog = templates
    /\ req = NoRequest
    /\ out = NoOutcome
    /\ published = 0
    /\ mongoose = FALSE
    /\ calls = <<>>
    /\ sink = <<>>
    /\ cmp = NoComparison

\* nats = await connect({ servers: NATS_URL })
RunConnected ==
    /\ variant = "hardcoded" /\ phase = "starting"
    /\ nats' = TRUE
    /\ phase' = "connected"
    /\ UNCHANGED <<mongoose, calls, sink, cmp, variant, catalog, req, out, published>>

\* Mutant of RunConnectFailed: the rejection is swallowed and run() goes on
RunConnectIgnored ==
    /\ variant = "hardcoded" /\ phase = "starting"
    /\ phase' = "connected"
    /\ UNCHANGED <<mongoose, calls, sink, cmp, variant, nats, catalog, req, out, published>>

\* connect rejects: catch (err) { process.exit(1) }
RunConnectFailed ==
    /\ variant = "hardcoded" /\ phase = "starting"
    /\ phase' = "exit1"
    /\ UNCHANGED <<mongoose, calls, sink, cmp, variant, nats, catalog, req, out, published>>

\* await server.connect(transport)
RunReady ==
    /\ variant = "hardcoded" /\ phase = "connected"
    /\ phase' = "ready"
    /\ UNCHANGED <<mongoose, calls, sink, cmp, variant, nats, catalog, req, out, published>>

\* server.connect rejects: catch (err) { process.exit(1) }
RunServeFailed ==
    /\ variant = "hardcoded" /\ phase = "connected"
    /\ phase' = "exit1"
    /\ UNCHANGED <<mongoose, calls, sink, cmp, variant, nats, catalog, req, out, published>>

\* One tool call handled by the CallToolRequestSchema handler
CallTool ==
    /\ variant = "hardcoded" /\ phase = "ready"
    /\ published < MaxPublished
    /\ \E r \in Requests :
         /\ req' = r
         /\ out' = HandleCallTool(nats, r)
         /\ published' = published + Len(out'.sent)
    /\ UNCHANGED <<mongoose, calls, sink, cmp, variant, phase, nats, catalog>>

Next == RunConnected \/ RunConnectFailed \/ RunReady \/ RunServeFailed \/ CallTool

Spec == Init /\ [][Next]_vars

----------------------------------------------------------------------------
\* src/.github/workflows/publish.yaml, lines 33-267: the NATS variant whose
\* catalog is a MongoDB collection

\* A document of the templates collection, or an item of GET /api/templates
Doc(id, name, type, subType, fields) ==
    [id |-> id, name |-> name, description |-> <<>>,
     type |-> type, sub_type |-> subType, fields |-> fields]

GPT == <<"G", "P", "T">>
gptMini == <<"g", "p", "t", " ", "m", "i", "n", "i">>
id1 == <<"6", "5", "a", "1">>
id2 == <<"6", "5", "a", "2">>
llm == <<"l", "l", "m">>
small == <<"s", "m", "a", "l", "l">>
domain == <<"d", "o", "m", "a", "i", "n">>
token == <<"t", "o", "k", "e", "n">>

docGPT == Doc(id1, GPT, llm, <<>>, <<domain, token>>)
docMini == Doc(id2, gptMini, <<>>, small, <<>>)

\* The contents an external catalog is drawn from
ExternalCatalogs == {<<>>, <<docGPT>>, <<docGPT, docMini>>, <<docMini, docGPT>>}

Digits == <<"0", "1", "2", "3", "4", "5", "6", "7", "8", "9">>

RECURSIVE NumberToString(_)
\* String(n) of a natural number
NumberToString(n) ==
    IF n < 10 THEN <<Digits[n + 1]>>
    ELSE Append(NumberToString(n \div 10), Digits[(n % 10) + 1])

\* The source of new RegExp(name, "i"): the string itself, String(name) of a number
RegExpSource(v) ==
    IF v.t = "string" THEN v.s ELSE IF v.t = "number" THEN NumberToString(v.n)
    ELSE <<"[", "o", "b", "j", "e", "c", "t", " ", "O", "b", "j", "e", "c", "t", "]">>

Count(p, c) == Cardinality({i \in 1..Len(p) : p[i] = c})

\* new RegExp(p) throws a SyntaxError: of the patterns the inputs hold, those
\* with a group left open
RegExpInvalid(p) == Count(p, "(") # Count(p, ")")

\* /p/i.test(s) for the patterns the inputs hold: characters that stand for
\* themselves, and the dot, which stands for any character; unanchored
RegExpTest(p, s) ==
    \E i \in 0..(Len(s) - Len(p)) :
      \A k \in 1..Len(p) :
        p[k] = "." \/ toLowerCaseChar(p[k]) = toLowerCaseChar(s[i + k])

RECURSIVE findOneFrom(_, _, _)
\* TemplateModel.findOne({ name: { $regex: new RegExp(name, "i") } }): the first
\* document, in the collection's natural order, whose name the expression matches
findOneFrom(cat, i, p) ==
    IF i > Len(cat) THEN 0
    ELSE IF RegExpTest(p, cat[i].name) THEN i
    ELSE findOneFrom(cat, i + 1, p)

findOne(cat, p) == findOneFrom(cat, 1, p)

\* The deploy branch up to the payload (lines 150-176); dbOk: the collection answers
MongoResolveDeploy(cat, dbOk, d) ==
    LET parsed == DeploySchemaSafeParse(d)
    IN IF parsed.success THEN Resolved("strict", parsed.data, 0)
       ELSE IF FallbackRefused(d)
            THEN Failed("none", "Error", InvalidArguments(parsed.errors), 0)
       ELSE IF RegExpInvalid(RegExpSource(d.name))
            THEN Failed("fallback", "SyntaxError",
                        Text("Invalid regular expression: /${name}/: Unterminated group",
                             d.name, Undefined), 0)
       ELSE IF ~dbOk
            THEN Failed("fallback", "MongooseError",
                        Text("findOne failed", Undefined, Undefined), 1)
       ELSE LET i == findOne(cat, RegExpSource(d.name))
            IN IF i = 0
               THEN Failed("fallback", "Error",
                           Text("No template found matching name: ${name}", d.name, Undefined), 1)
               ELSE Resolved("fallback",
                             [user_id |-> d.user_id, template_id |-> Str(cat[i].id),
                              creds |-> d.creds], 1)

\* if (name === "deploy") { ... }
MongoDeployTool(cat, dbOk, d) ==
    LET r == MongoResolveDeploy(cat, dbOk, d)
    IN IF r.status = "thrown" THEN Throw(r.class, r.text, <<>>, r.reads)
       ELSE Return(Text("Deploy event published for user ${user_id} using template ${template_id}",
                        r.payload.user_id, r.payload.template_id),
                   << Message("deploy", DeployKeys, r.payload) >>, r.reads)

\* The message of a ZodError that nothing converts: the issues as JSON
ZodErrorText(errors) ==
    [fmt |-> "${JSON.stringify(errors)}", a |-> Undefined, b |-> Undefined,
     errors |-> errors, entries |-> <<>>]

\* if (name === "delete") { ... }: DeleteSchema.parse throws the ZodError itself
MongoDeleteTool(d) ==
    LET parsed == DeleteSchemaSafeParse(d)
    IN IF ~parsed.success THEN Throw("ZodError", ZodErrorText(parsed.errors), <<>>, 0)
       ELSE Return(Text("Delete event published for server ${server_id}",
                        parsed.data.server_id, Undefined),
                   << Message("delete", DeleteKeys, parsed.data) >>, 0)

\* `* ${name} (${id})\n  Type: ${type}${subType}\n  Fields: ${fields}` with
\* name = t.name || "(unnamed)", type = t.type || "(no type)",
\* subType = t.sub_type ? ` / ${t.sub_type}` : "", fields = t.fields.join(", ")
FormatDoc(t) ==
    Entry(IF t.sub_type # <<>>
          THEN "* ${name} (${id})\n  Type: ${type} / ${t.sub_type}\n  Fields: ${fields}"
          ELSE "* ${name} (${id})\n  Type: ${type}\n  Fields: ${fields}",
          IF t.name # <<>> THEN t.name
          ELSE <<"(", "u", "n", "n", "a", "m", "e", "d", ")">>,
          t.id, <<>>,
          IF t.type # <<>> THEN t.type
          ELSE <<"(", "n", "o", " ", "t", "y", "p", "e", ")">>,
          t.sub_type, t.fields)

\* items.map(...).join("\n\n") || "No templates found."
ListText(cat) ==
    IF cat = <<>> THEN Text("No templates found.", Undefined, Undefined)
    ELSE [fmt |-> "${entries.join('\n\n')}", a |-> Undefined, b |-> Undefined,
          errors |-> <<>>, entries |-> [i \in 1..Len(cat) |-> FormatDoc(cat[i])]]

\* if (name === "list_templates") { ... }
MongoListTemplatesTool(cat, dbOk) ==
    IF ~dbOk THEN Throw("MongooseError", Text("find failed", Undefined, Undefined), <<>>, 1)
    ELSE Return(ListText(cat), <<>>, 1)

\* The handler preamble: if (!data) throw new Error("Missing input (arguments or resource)")
MongoMissingInput(r) == ~DataOf(r).present

\* server.setRequestHandler(CallToolRequestSchema, async (request) => { ... })
MongoHandleCallTool(natsUp, cat, dbOk, r) ==
    IF MongoMissingInput(r)
    THEN Throw("Error", Text("Missing input (arguments or resource)", Undefined, Undefined),
               <<>>, 0)
    ELSE IF ~natsUp
    THEN Throw("Error", Text("NATS connection not established", Undefined, Undefined), <<>>, 0)
    ELSE CASE r.name = "deploy" -> MongoDeployTool(cat, dbOk, DataOf(r).d)
           [] r.name = "delete" -> MongoDeleteTool(DataOf(r).d)
           [] r.name = "list_templates" -> MongoListTemplatesTool(cat, dbOk)
           [] OTHER -> Throw("Error", Text("Unknown tool: ${name}", Undefined, Undefined), <<>>, 0)

MongoDeployData ==
    {DeployInput(u, t, n, c) : u \in {Undefined, Str(u1)}, t \in {Undefined, Str(tplX)},
                               n \in Names, c \in {Undefined, Obj(1), Num(0)}}

MongoRequests ==
    {ToolRequest("deploy", b.args, b.attrs) : b \in Bags(MongoDeployData)}
        \cup {ToolRequest("delete", b.args, b.attrs) : b \in Bags(DeleteData)}
        \cup {ToolRequest("list_templates", b.args, b.attrs) : b \in Bags({EmptyObject})}
        \cup {ToolRequest("restart", b.args, b.attrs) : b \in Bags({EmptyObject})}

InitMongo ==
    /\ variant = "mongo"
    /\ phase = "starting"
    /\ nats = FALSE
    /\ catalog \in ExternalCatalogs
    /\ req = NoRequest
    /\ out = NoOutcome
    /\ published = 0
    /\ mongoose = FALSE
    /\ calls = <<>>
    /\ sink = <<>>
    /\ cmp = NoComparison

\* await mongoose.connect(MONGO_URL)
MongoRunMongoose ==
    /\ variant = "mongo" /\ phase = "starting"
    /\ mongoose' = TRUE
    /\ phase' = "mongo_connected"
    /\ UNCHANGED <<calls, sink, cmp, variant, nats, catalog, req, out, published>>

\* nats = await connect({ servers: NATS_URL })
MongoRunConnected ==
    /\ variant = "mongo" /\ phase = "mongo_connected"
    /\ nats' = TRUE
    /\ phase' = "connected"
    /\ UNCHANGED <<mongoose, calls, sink, cmp, variant, catalog, req, out, published>>

\* await server.connect(transport)
MongoRunReady ==
    /\ variant = "mongo" /\ phase = "connected"
    /\ phase' = "ready"
    /\ UNCHANGED <<mongoose, calls, sink, cmp, variant, nats, catalog, req, out, published>>

\* One of the three awaits of run() rejects: catch (err) { process.exit(1) }
MongoRunFailed ==
    /\ variant = "mongo" /\ phase \in {"starting", "mongo_connected", "connected"}
    /\ phase' = "exit1"
    /\ UNCHANGED <<mongoose, calls, sink, cmp, variant, nats, catalog, req, out, published>>

\* One tool call handled by the CallToolRequestSchema handler
MongoCallTool ==
    /\ variant = "mongo" /\ phase = "ready"
    /\ published < MaxPublished
    /\ \E r \in MongoRequests, dbOk \in BOOLEAN :
         /\ req' = r
         /\ out' = MongoHandleCallTool(nats, catalog, dbOk, r)
         /\ published' = published + Len(out'.sent)
    /\ UNCHANGED <<mongoose, calls, sink, cmp, variant, phase, nats, catalog>>

NextMongo == MongoRunMongoose \/ MongoRunConnected \/ MongoRunReady \/ MongoRunFailed
                \/ MongoCallTool

\* The two NATS variants
InitNats == Init \/ InitMongo
NextNats == Next \/ NextMongo
SpecNats == InitNats /\ [][NextNats]_vars

----------------------------------------------------------------------------
\* src/.github/workflows/publish.yaml, lines 269-487: the REST variant that
\* deploys by template name. The handler reads request.params.arguments only,
\* and nothing converts a ZodError or an axios error.

\* z.object({ ... }).parse(args) of an args that is undefined
RequiredObject == << [path |-> "", message |-> "Required"] >>

\* z.object({ template_name: z.string(), template_creds: z.any().optional() }).parse(args)
RestDeployParse(args) ==
    LET errors == IF ~args.present THEN RequiredObject
                  ELSE zString("template_name", args.d.template_name)
    IN [success |-> errors = <<>>,
        data |-> [template_name |-> args.d.template_name,
                  template_creds |-> args.d.template_creds],
        errors |-> errors]

\* DeleteSchema.parse(args)
RestDeleteParse(args) ==
    LET errors == IF ~args.present THEN RequiredObject
                  ELSE zString("server_id", args.d.server_id)
    IN [success |-> errors = <<>>, data |-> [server_id |-> args.d.server_id], errors |-> errors]

RECURSIVE findExactFrom(_, _, _)
\* templates.find(t => t.name === template_name)
findExactFrom(cat, i, name) ==
    IF i > Len(cat) THEN 0
    ELSE IF cat[i].name = name THEN i
    ELSE findExactFrom(cat, i + 1, name)

RestBodyKeys == <<"template_id", "creds">>

AxiosError(what, sent, reads) ==
    Throw("AxiosError", Text(what, Undefined, Undefined), sent, reads)

\* if (name === "deploy") { ... }; getOk, postOk: the API answers the call
RestDeployTool(cat, getOk, postOk, args) ==
    LET parsed == RestDeployParse(args)
    IN IF ~parsed.success THEN Throw("ZodError", ZodErrorText(parsed.errors), <<>>, 0)
       ELSE IF ~getOk THEN AxiosError("GET /api/templates failed", <<>>, 1)
       ELSE LET i == findExactFrom(cat, 1, parsed.data.template_name.s)
            IN IF i = 0
               THEN Return(Text("Template not found: ${template_name}",
                                parsed.data.template_name, Undefined), <<>>, 1)
               ELSE LET post == Message("POST /api/servers", RestBodyKeys,
                                        [template_id |-> Str(cat[i].id),
                                         creds |-> parsed.data.template_creds])
                    IN IF ~postOk THEN AxiosError("POST /api/servers failed", <<post>>, 1)
                       ELSE Return(Text("Deployment triggered for: ${template_name} (ID: ${template.id})",
                                        parsed.data.template_name, Str(cat[i].id)),
                                   <<post>>, 1)

\* if (name === "delete") { ... }
RestDeleteTool(postOk, args) ==
    LET parsed == RestDeleteParse(args)
    IN IF ~parsed.success THEN Throw("ZodError", ZodErrorText(parsed.errors), <<>>, 0)
       ELSE LET del == Message("DELETE /api/servers/${server_id}", DeleteKeys, parsed.data)
            IN IF ~postOk
               THEN AxiosError("DELETE /api/servers/${server_id} failed", <<del>>, 0)
               ELSE Return(Text("Server ${server_id} deleted successfully",
                                parsed.data.server_id, Undefined), <<del>>, 0)

\* if (name === "list_templates") { ... }
RestListTemplatesTool(cat, getOk) ==
    IF ~getOk THEN AxiosError("GET /api/templates failed", <<>>, 1)
    ELSE Return(ListText(cat), <<>>, 1)

\* server.setRequestHandler(CallToolRequestSchema, async (request) => { ... })
RestHandleCallTool(cat, getOk, postOk, r) ==
    CASE r.name = "deploy" -> RestDeployTool(cat, getOk, postOk, r.args)
      [] r.name = "delete" -> RestDeleteTool(postOk, r.args)
      [] r.name = "list_templates" -> RestListTemplatesTool(cat, getOk)
      [] OTHER -> Throw("Error", Text("Unknown tool: ${name}", Undefined, Undefined), <<>>, 0)

----------------------------------------------------------------------------
\* src/unnamed/part_000: the REST variant that deploys by template id

\* DeploySchema.parse(args) with DeploySchema = z.object({ template_id, creds })
RestIdDeployParse(args) ==
    LET errors == IF ~args.present THEN RequiredObject
                  ELSE zString("template_id", args.d.template_id)
    IN [success |-> errors = <<>>,
        data |-> [template_id |-> args.d.template_id, creds |-> args.d.creds],
        errors |-> errors]

\* if (name === "deploy") { ... }
RestIdDeployTool(postOk, args) ==
    LET parsed == RestIdDeployParse(args)
    IN IF ~parsed.success THEN Throw("ZodError", ZodErrorText(parsed.errors), <<>>, 0)
       ELSE LET post == Message("POST /api/servers", RestBodyKeys, parsed.data)
            IN IF ~postOk THEN AxiosError("POST /api/servers failed", <<post>>, 0)
               ELSE Return(Text("Deployment triggered for template ID: ${body.template_id}",
                                parsed.data.template_id, Undefined), <<post>>, 0)

\* server.setRequestHandler(CallToolRequestSchema, async (request) => { ... })
RestIdHandleCallTool(cat, getOk, postOk, r) ==
    CASE r.name = "deploy" -> RestIdDeployTool(postOk, r.args)
      [] r.name = "delete" -> RestDeleteTool(postOk, r.args)
      [] r.name = "list_templates" -> RestListTemplatesTool(cat, getOk)
      [] OTHER -> Throw("Error", Text("Unknown tool: ${name}", Undefined, Undefined), <<>>, 0)

RestDeployData ==
    {[EmptyObject EXCEPT !.template_name = n, !.template_creds = c, !.template_id = t, !.creds = k] :
        n \in {Undefined, Str(GPT), Str(gpt), Str(nonexistent), Num(5)},
        c \in {Undefined, Obj(1)},
        t \in {Undefined, Str(tplX), Num(7)},
        k \in {Undefined, Obj(1)}}

RestRequests ==
    {ToolRequest("deploy", b.args, b.attrs) : b \in Bags(RestDeployData)}
        \cup {ToolRequest("delete", b.args, b.attrs) : b \in Bags(DeleteData)}
        \cup {ToolRequest("list_templates", b.args, b.attrs) : b \in Bags({EmptyObject})}
        \cup {ToolRequest("restart", b.args, b.attrs) : b \in Bags({EmptyObject})}

InitRest ==
    /\ variant \in {"rest", "restid"}
    /\ phase = "starting"
    /\ nats = FALSE
    /\ catalog \in ExternalCatalogs
    /\ req = NoRequest
    /\ out = NoOutcome
    /\ published = 0
    /\ mongoose = FALSE
    /\ calls = <<>>
    /\ sink = <<>>
    /\ cmp = NoComparison

\* run(): await server.connect(transport)
RestRunReady ==
    /\ variant \in {"rest", "restid"} /\ phase = "starting"
    /\ phase' = "ready"
    /\ UNCHANGED <<mongoose, calls, sink, cmp, variant, nats, catalog, req, out, published>>

\* One tool call handled by the handler of the by-name REST variant
RestCallTool ==
    /\ variant = "rest" /\ phase = "ready"
    /\ published < MaxPublished
    /\ \E r \in RestRequests, getOk \in BOOLEAN, postOk \in BOOLEAN :
         /\ req' = r
         /\ out' = RestHandleCallTool(catalog, getOk, postOk, r)
         /\ published' = published + Len(out'.sent)
    /\ UNCHANGED <<mongoose, calls, sink, cmp, variant, phase, nats, catalog>>

\* One tool call handled by the handler of the by-id REST variant
RestIdCallTool ==
    /\ variant = "restid" /\ phase = "ready"
    /\ published < MaxPublished
    /\ \E r \in RestRequests, getOk \in BOOLEAN, postOk \in BOOLEAN :
         /\ req' = r
         /\ out' = RestIdHandleCallTool(catalog, getOk, postOk, r)
         /\ published' = published + Len(out'.sent)
    /\ UNCHANGED <<mongoose, calls, sink, cmp, variant, phase, nats, catalog>>

NextRest == RestRunReady \/ RestCallTool \/ RestIdCallTool

\* Every variant
InitAll == Init \/ InitMongo \/ InitRest
NextAll == Next \/ NextMongo \/ NextRest
SpecAll == InitAll /\ [][NextAll]_vars

----------------------------------------------------------------------------
\* Invocations in flight. The handlers are async functions and nothing in the
\* entry files queues the requests: a handler runs from its start to its first
\* await, and from one await to the next, as one step each, and the handler of
\* a request that arrived meanwhile may run between two such steps.
\* calls: the invocations in the order they arrived, each with the await it is
\* suspended on; sink: the messages published, in the order of the publishes.

\* Bound: invocations taken in one run
MaxCalls == 2

ConcRequests ==
    {ToolRequest("deploy", Present(DeployInput(Str(u1), Str(tplX), Undefined, Obj(1))), Absent),
     ToolRequest("deploy", Present(DeployInput(Str(u1), Undefined, Str(gpt), Obj(1))), Absent),
     ToolRequest("deploy", Present(DeployInput(Str(u1), Undefined, Str(nonexistent), Obj(1))), Absent),
     ToolRequest("deploy", Present(EmptyObject), Absent),
     ToolRequest("delete", Present([EmptyObject EXCEPT !.server_id = Str(srv1)]), Absent),
     ToolRequest("list_templates", Present(EmptyObject), Absent),
     ToolRequest("list_templates", Absent, Absent)}

Invocation(r, pc, o) == [req |-> r, pc |-> pc, out |-> o]

\* The messages an invocation hands to nats.publish, tagged with its arrival number
Published(i, o) == [k \in 1..Len(o.sent) |-> [call |-> i, msg |-> o.sent[k]]]

\* await nats.publish(...): reached by the deploy and delete branches that return
AwaitsPublish(r, o) == o.kind = "result" /\ r.name \in {"deploy", "delete"}

\* src/src/index.ts: the handler from its start to its first await, or to its
\* end when no await is reached
ConcStart ==
    /\ variant = "hardcoded" /\ phase = "ready"
    /\ Len(calls) < MaxCalls
    /\ \E r \in ConcRequests :
         LET o == HandleCallTool(nats, r)
         IN /\ sink' = sink \o Published(Len(calls) + 1, o)
            /\ calls' = Append(calls, Invocation(r, IF AwaitsPublish(r, o) THEN "awaitPublish"
                                                    ELSE "done", o))
    /\ UNCHANGED <<variant, phase, nats, catalog, req, out, published, mongoose, cmp>>

\* src/src/index.ts: the handler resumed after await nats.publish, to its return
ConcResume ==
    /\ variant = "hardcoded"
    /\ \E i \in 1..Len(calls) :
         /\ calls[i].pc = "awaitPublish"
         /\ calls' = [calls EXCEPT ![i].pc = "done"]
    /\ UNCHANGED <<variant, phase, nats, catalog, req, out, published, mongoose, sink, cmp>>

\* Mongo variant: the call reaches await TemplateModel.findOne / find
MongoReadsCatalog(natsUp, cat, r) == MongoHandleCallTool(natsUp, cat, TRUE, r).reads > 0

\* Mongo variant: the handler from its start to its first await
MongoConcStart ==
    /\ variant = "mongo" /\ phase = "ready"
    /\ Len(calls) < MaxCalls
    /\ \E r \in ConcRequests :
         IF MongoReadsCatalog(nats, catalog, r)
         THEN /\ calls' = Append(calls, Invocation(r, "awaitCatalog", NoOutcome))
              /\ sink' = sink
         ELSE LET o == MongoHandleCallTool(nats, catalog, TRUE, r)
              IN /\ sink' = sink \o Published(Len(calls) + 1, o)
                 /\ calls' = Append(calls, Invocation(r, IF AwaitsPublish(r, o) THEN "awaitPublish"
                                                         ELSE "done", o))
    /\ UNCHANGED <<variant, phase, nats, catalog, req, out, published, mongoose, cmp>>

\* Mongo variant: findOne / find settles and the handler runs on to its next
\* await or to its end
MongoConcCatalogAnswer ==
    /\ variant = "mongo"
    /\ \E i \in 1..Len(calls), dbOk \in BOOLEAN :
         /\ calls[i].pc = "awaitCatalog"
         /\ LET o == MongoHandleCallTool(nats, catalog, dbOk, calls[i].req)
            IN /\ sink' = sink \o Published(i, o)
               /\ calls' = [calls EXCEPT ![i] =
                              Invocation(calls[i].req,
                                         IF AwaitsPublish(calls[i].req, o) THEN "awaitPublish"
                                         ELSE "done", o)]
    /\ UNCHANGED <<variant, phase, nats, catalog, req, out, published, mongoose, cmp>>

\* Mongo variant: the handler resumed after await nats.publish, to its return
MongoConcResume ==
    /\ variant = "mongo"
    /\ \E i \in 1..Len(calls) :
         /\ calls[i].pc = "awaitPublish"
         /\ calls' = [calls EXCEPT ![i].pc = "done"]
    /\ UNCHANGED <<variant, phase, nats, catalog, req, out, published, mongoose, sink, cmp>>

NextConc ==
    \/ RunConnected \/ RunConnectFailed \/ RunReady \/ RunServeFailed
    \/ ConcStart \/ ConcResume
    \/ MongoRunMongoose \/ MongoRunConnected \/ MongoRunReady \/ MongoRunFailed
    \/ MongoConcStart \/ MongoConcCatalogAnswer \/ MongoConcResume

\* The two NATS variants with their invocations interleaved at the awaits
SpecConc == InitNats /\ [][NextConc]_vars

----------------------------------------------------------------------------
\* The name resolution of the variants side by side: the same name is given to
\* the deploy tool of the hardcoded-list variant, of the Mongo variant and of
\* the by-name REST variant, each over a catalog with the contents and order of
\* the hardcoded list, every connection up and every call answered.

basicGptServer ==
    <<"B", "a", "s", "i", "c", " ", "G", "P", "T", " ", "S", "e", "r", "v", "e", "r">>
mongoDbServer == <<"M", "o", "n", "g", "o", "D", "B", " ", "S", "e", "r", "v", "e", "r">>

CompareNames ==
    {gpt, GPT, SERVER, nonexistent, gDotT, paren, basicGptServer, mongoDbServer,
     <<"S", "c", "r", "a", "p", "e", "r">>, <<"s">>, <<"m", "o", "n", "g", "o">>,
     <<"b", "a", "s", "i", "c">>, <<".">>, <<"S", "e", "r", "v", "e", "r">>, u1}

\* The deploy request by name of the NATS variants
ByName(n) == ToolRequest("deploy", Present(DeployInput(Str(u1), Undefined, Str(n), Obj(1))), Absent)

\* The deploy request by name of the REST variant
ByTemplateName(n) ==
    ToolRequest("deploy",
                Present([EmptyObject EXCEPT !.template_name = Str(n), !.template_creds = Obj(1)]),
                Absent)

InitCompare ==
    /\ variant = "compare"
    /\ phase = "ready"
    /\ nats = TRUE
    /\ mongoose = TRUE
    /\ catalog = templates
    /\ req = NoRequest
    /\ out = NoOutcome
    /\ published = 0
    /\ calls = <<>>
    /\ sink = <<>>
    /\ cmp = NoComparison

\* A name to resolve
PickName ==
    /\ variant = "compare"
    /\ \E n \in CompareNames : cmp' = [NoComparison EXCEPT !.name = n]
    /\ UNCHANGED <<variant, phase, nats, catalog, req, out, published, mongoose, calls, sink>>

\* src/src/index.ts resolves the name
ResolveHardcoded ==
    /\ variant = "compare" /\ cmp.name # <<>> /\ cmp.hardcoded = NoOutcome
    /\ cmp' = [cmp EXCEPT !.hardcoded = HandleCallTool(nats, ByName(cmp.name))]
    /\ UNCHANGED <<variant, phase, nats, catalog, req, out, published, mongoose, calls, sink>>

\* The Mongo variant resolves the name
ResolveMongo ==
    /\ variant = "compare" /\ cmp.name # <<>> /\ cmp.mongo = NoOutcome
    /\ cmp' = [cmp EXCEPT !.mongo = MongoHandleCallTool(nats, catalog, TRUE, ByName(cmp.name))]
    /\ UNCHANGED <<variant, phase, nats, catalog, req, out, published, mongoose, calls, sink>>

\* The by-name REST variant resolves the name
ResolveRest ==
    /\ variant = "compare" /\ cmp.name # <<>> /\ cmp.rest = NoOutcome
    /\ cmp' = [cmp EXCEPT !.rest = RestHandleCallTool(catalog, TRUE, TRUE,
                                                      ByTemplateName(cmp.name))]
    /\ UNCHANGED <<variant, phase, nats, catalog, req, out, published, mongoose, calls, sink>>

NextCompare == PickName \/ ResolveHardcoded \/ ResolveMongo \/ ResolveRest

SpecCompare == InitCompare /\ [][NextCompare]_vars

----------------------------------------------------------------------------
\* Vocabulary of the properties: the invocation handled last

Handled == out.kind # "none"
Input == DataOf(req)
Deployed == Handled /\ req.name = "deploy"

\* The value a published message carries under a key, undefined when it has none
BodyGet(body, key) ==
    IF \E i \in 1..Len(body) : body[i][1] = key
    THEN body[CHOOSE i \in 1..Len(body) : body[i][1] = key][2]
    ELSE Undefined

\* The strict shape: a string user_id and a string template_id
StrictShape(d) == d.user_id.t = "string" /\ d.template_id.t = "string"

\* The catalog entries whose name contains the string, case-insensitively
Matching(cat, name) ==
    {i \in 1..Len(cat) : includes(toLowerCase(cat[i].name), toLowerCase(name))}

FirstOf(M) == CHOOSE i \in M : \A j \in M : i <= j

\* An input that has to take the fallback path: not of the strict shape, with a
\* user id, credentials and a non-empty string name
FallbackInput(d) ==
    /\ ~StrictShape(d)
    /\ ~Falsy(d.user_id) /\ ~Falsy(d.creds)
    /\ d.name.t = "string" /\ d.name.s # <<>>

Cites(errors, path) == \E i \in 1..Len(errors) : errors[i].path = path

IsInvalidArguments == out.kind = "error" /\ out.text.fmt = "Invalid arguments: ${errors}"

----------------------------------------------------------------------------
\* The outcomes of a deploy call that are a validation error, a missing-input
\* error or a template-not-found outcome
ValidationFormats ==
    {"Invalid arguments: ${errors}", "${JSON.stringify(errors)}",
     "Missing deployment input (arguments or resource)",
     "Missing input (arguments or resource)"}

NotFoundFormats ==
    {"No template found matching name: ${name}", "Template not found: ${template_name}"}

DeploySubjects == {"deploy", "POST /api/servers"}

\* C1: a deploy call that ends in a validation error, a missing-input error or
\* template-not-found has dispatched nothing; one that returns its confirmation
\* has dispatched exactly one deploy message; and whenever a message was
\* dispatched the resolution had succeeded (the call returned, or the API
\* refused the POST that was made).
C1_DispatchOnlyWhenResolved ==
    Deployed =>
      /\ out.text.fmt \in (ValidationFormats \cup NotFoundFormats) => out.sent = <<>>
      /\ (out.kind = "result" /\ out.text.fmt \notin NotFoundFormats) =>
            (Len(out.sent) = 1 /\ out.sent[1].subject \in DeploySubjects)
      /\ out.sent # <<>> =>
            \/ out.kind = "result" /\ out.text.fmt \notin NotFoundFormats
            \/ out.class = "AxiosError" /\ out.text.fmt = "POST /api/servers failed"

C1_Witness ==
    /\ Deployed /\ variant = "hardcoded"
    /\ out.kind = "error"
    /\ out.text.fmt = "No template found matching name: ${name}"
    /\ out.sent = <<>>
    /\ published = 1

\* C2: a deploy input with a string user_id, a string template_id and a creds
\* value is published with exactly these three values, and the catalog is not
\* read, whether or not a name comes with it.
C2_StrictUnchanged ==
    (Deployed /\ Input.present /\ StrictShape(Input.d) /\ Input.d.creds.t # "undefined") =>
      /\ out.kind = "result"
      /\ out.reads = 0
      /\ out.sent = << [subject |-> "deploy",
                        body |-> << <<"user_id", Input.d.user_id>>,
                                    <<"template_id", Input.d.template_id>>,
                                    <<"creds", Input.d.creds>> >>] >>
      /\ out.text.b = Input.d.template_id

C2_Witness ==
    /\ Deployed /\ Input.present /\ StrictShape(Input.d)
    /\ Input.d.creds = Obj(1)
    /\ Input.d.name = Str(gpt)
    /\ Input.d.template_id = Str(tplX)
    /\ out.kind = "result" /\ out.reads = 0 /\ Len(out.sent) = 1

\* C9 as stated: list_templates called with no arguments and no resource
\* attributes, the catalog answering, returns one entry per catalog template in
\* catalog order, or 'No templates found.' for an empty catalog, and dispatches
\* nothing.
C9_ListNeedsNoInput ==
    (Handled /\ req.name = "list_templates" /\ ~req.args.present /\ ~req.attrs.present
        /\ out.class \notin {"MongooseError", "AxiosError"}) =>
      /\ out.kind = "result"
      /\ out.sent = <<>>
      /\ IF catalog = <<>> THEN out.text.fmt = "No templates found."
         ELSE /\ Len(out.text.entries) = Len(catalog)
              /\ \A i \in 1..Len(catalog) : out.text.entries[i].id = catalog[i].id

\* C3: an input of the fallback path whose name is contained, case-insensitively,
\* in some catalog name resolves to the id of the first such entry in catalog
\* order (the only one when just one matches), and that id is what is published.
C3_FallbackFirstMatch ==
    (Deployed /\ Input.present /\ FallbackInput(Input.d)
        /\ Matching(catalog, Input.d.name.s) # {}) =>
      LET first == catalog[FirstOf(Matching(catalog, Input.d.name.s))]
      IN /\ out.kind = "result"
         /\ Len(out.sent) = 1
         /\ BodyGet(out.sent[1].body, "template_id") = Str(first.id)
         /\ out.text.b = Str(first.id)

C3_Witness ==
    /\ Deployed /\ Input.present /\ FallbackInput(Input.d)
    /\ Input.d.name = Str(SERVER)
    /\ Cardinality(Matching(catalog, SERVER)) > 1
    /\ out.kind = "result"
    /\ BodyGet(out.sent[1].body, "template_id") = Str(tplMongo)

\* C4 as stated: every deploy input whose name matches no catalog entry fails
\* with the error 'No template found matching name: <name>'.
C4_Original ==
    (Deployed /\ Input.present /\ Input.d.name.t = "string" /\ Input.d.name.s # <<>>
        /\ Matching(catalog, Input.d.name.s) = {}) =>
      /\ out.kind = "error"
      /\ out.text.fmt = "No template found matching name: ${name}"
      /\ out.text.a = Input.d.name

\* C4 amended: a deploy input of the fallback path (not of the strict shape, with
\* a user id, credentials and a non-empty string name) whose name matches no
\* catalog entry fails with the error 'No template found matching name: <name>',
\* thrown, not returned, and nothing is published.
C4_FallbackNotFound ==
    (Deployed /\ Input.present /\ FallbackInput(Input.d)
        /\ Matching(catalog, Input.d.name.s) = {}) =>
      /\ out.kind = "error"
      /\ out.text.fmt = "No template found matching name: ${name}"
      /\ out.text.a = Input.d.name
      /\ out.sent = <<>>

C4_Witness ==
    /\ Deployed /\ Input.present /\ FallbackInput(Input.d)
    /\ Input.d.name = Str(nonexistent)
    /\ out.kind = "error"
    /\ out.text.fmt = "No template found matching name: ${name}"

\* C5 as stated: every resolved deploy command carries the id of a template of
\* the catalog.
C5_TemplateExists ==
    (Deployed /\ out.kind = "result" /\ Len(out.sent) = 1) =>
      \E i \in 1..Len(catalog) :
        BodyGet(out.sent[1].body, "template_id") = Str(catalog[i].id)

\* C6 as stated: a deploy input without a creds field fails with a validation
\* error and nothing is published.
C6_NoCredsRefused ==
    (Deployed /\ Input.present /\ Input.d.creds.t = "undefined") =>
      /\ IsInvalidArguments
      /\ out.sent = <<>>

\* C7 as stated: the validation error of an input that fits neither path cites
\* every required field that is missing or invalid: user_id when it is no string,
\* creds when it is not there, template_id when neither a template id nor a name
\* is usable.
C7_AllFieldsCited ==
    (Deployed /\ Input.present /\ IsInvalidArguments) =>
      /\ Input.d.user_id.t # "string" => Cites(out.text.errors, "user_id")
      /\ Input.d.creds.t = "undefined" => Cites(out.text.errors, "creds")
      /\ (Input.d.template_id.t # "string" /\ Falsy(Input.d.name))
            => Cites(out.text.errors, "template_id")

\* C8: a deploy input with neither a template id nor a name fails with a
\* validation error (the arguments error citing template_id as required, or the
\* missing-input error when there is no input at all), whatever its user id and
\* credentials; the catalog is not read and nothing is published.
C8_NoTemplateNoName ==
    (Deployed /\ Input.d.template_id.t = "undefined" /\ Input.d.name.t = "undefined") =>
      /\ out.kind = "error"
      /\ out.sent = <<>>
      /\ out.reads = 0
      /\ IF Input.present
         THEN /\ out.text.fmt = "Invalid arguments: ${errors}"
              /\ \E i \in 1..Len(out.text.errors) :
                   out.text.errors[i] = [path |-> "template_id", message |-> "Required"]
         ELSE out.text.fmt = "Missing deployment input (arguments or resource)"

C8_Witness ==
    /\ Deployed /\ Input.present
    /\ Input.d.template_id.t = "undefined" /\ Input.d.name.t = "undefined"
    /\ Input.d.user_id = Str(u1) /\ Input.d.creds = Obj(1)
    /\ IsInvalidArguments

\* C10: a delete call whose input has a string server_id publishes exactly one
\* delete message carrying that server_id and returns the confirmation naming
\* it; any other delete call fails with a validation error and publishes nothing.
C10_Delete ==
    (Handled /\ req.name = "delete") =>
      IF Input.present /\ Input.d.server_id.t = "string"
      THEN /\ out.kind = "result"
           /\ out.sent = << [subject |-> "delete",
                             body |-> << <<"server_id", Input.d.server_id>> >>] >>
           /\ out.text.fmt = "Delete event published for server ${server_id}"
           /\ out.text.a = Input.d.server_id
      ELSE /\ out.kind = "error"
           /\ out.sent = <<>>
           /\ out.text.fmt \in {"Invalid arguments: ${errors}",
                                "Missing deletion input (arguments or resource)"}

C10_Witness ==
    /\ Handled /\ req.name = "delete"
    /\ Input.d.server_id = Str(srv1)
    /\ out.kind = "result" /\ Len(out.sent) = 1 /\ published >= 1

\* C11 as stated: invocations are handled one at a time (an invocation is only
\* started once every earlier one has completed), so the messages are published
\* in the order the invocations arrived.
C11_OneAtATime ==
    /\ \A i \in 1..(Len(calls) - 1) : calls[i].pc = "done"
    /\ \A k \in 1..Len(sink), l \in 1..Len(sink) : k < l => sink[k].call <= sink[l].call

\* A deploy outcome that selected a template, and the id it selected
Selected(o) == o.kind = "result" /\ o.text.fmt \notin NotFoundFormats
NotFoundError(o) == o.kind = "error" /\ o.text.fmt \in NotFoundFormats

\* C12 as stated: for the same catalog and the same name the three variants
\* select the same template id, or all three fail with a template-not-found
\* error.
C12_SameResolution ==
    (cmp.hardcoded # NoOutcome /\ cmp.mongo # NoOutcome /\ cmp.rest # NoOutcome) =>
      \/ /\ Selected(cmp.hardcoded) /\ Selected(cmp.mongo) /\ Selected(cmp.rest)
         /\ cmp.hardcoded.text.b = cmp.mongo.text.b
         /\ cmp.mongo.text.b = cmp.rest.text.b
      \/ NotFoundError(cmp.hardcoded) /\ NotFoundError(cmp.mongo) /\ NotFoundError(cmp.rest)

\* Credentials values a caller may supply in a present creds field
AnyCreds == {Obj(1), Obj(2), Num(0), Str(<<>>), Bool(FALSE)}

\* C13 as stated: a deploy input that is not of the strict shape and has a creds
\* field is resolved the same way whatever the value of that field: the same
\* path, the same template id or the same error, and the published command
\* carries the value supplied.
C13_CredsOpaque ==
    (Deployed /\ Input.present /\ ~StrictShape(Input.d) /\ Input.d.creds # Undefined) =>
      /\ \A c \in AnyCreds :
           LET r1 == ResolveDeploy(Input.d)
               r2 == ResolveDeploy([Input.d EXCEPT !.creds = c])
           IN /\ r1.status = r2.status
              /\ r1.path = r2.path
              /\ r1.status = "resolved" =>
                   /\ r1.payload.template_id = r2.payload.template_id
                   /\ r2.payload.creds = c
              /\ r1.status = "thrown" => (r1.class = r2.class /\ r1.text = r2.text)
      /\ out.sent # <<>> => BodyGet(out.sent[1].body, "creds") = Input.d.creds

\* The connections run() has to establish before it connects the transport
Established == nats /\ (variant = "mongo" => mongoose)

\* C14: in the NATS variants the transport is connected only once the NATS
\* connection (and in the Mongo variant the mongoose connection before it) is
\* established; a tool call is handled only then, so no handler takes the
\* "NATS connection not established" branch; and a process that exited with
\* status 1 has handled no tool call.
C14_StartupOrdering ==
    /\ phase \in {"connected", "ready"} => Established
    /\ Handled =>
         /\ phase = "ready" /\ Established
         /\ out.text.fmt # "NATS connection not established"
    /\ phase = "exit1" => ~Handled
    /\ variant = "mongo" /\ nats => mongoose

\* A deploy handled and published by the Mongo variant over both connections
C14_Witness ==
    /\ variant = "mongo" /\ Deployed /\ out.sent # <<>>
    /\ nats /\ mongoose

====
